---- MODULE Spec2Model ----
(***************************************************************************)
(* ClientTCP (packages/microservices/client/client-tcp.ts): the TCP client  *)
(* transport.  The client's fields, the sockets it creates, the promises    *)
(* returned by connect(), the routing map of pending callbacks and the      *)
(* callback invocations are the state; one action per method or socket      *)
(* event handler.                                                           *)
(***************************************************************************)
EXTENDS Integers, Sequences, FiniteSets, TLC

\* ---- bounds --------------------------------------------------------------
\* sockets (connect cycles) the client may create
MaxSockets == 2
\* requests (publish / send calls) issued
MaxRequests == 2
\* message events emitted by the sockets
MaxMessages == 2
\* method calls and socket events in one run
MaxSteps == 7

SocketIds == 1..MaxSockets
PacketIds == 1..MaxRequests

\* null / undefined of the socket and connection fields
Null == 0

\* what a decoded inbound packet carries: a plain response, an err, or isDisposed
MessageKinds == {"data", "error", "disposed"}
Messages == [id : PacketIds, kind : MessageKinds]

\* outcomes a callback can be invoked with:
\*   "data"     { err: undefined, response }                 (handleResponse, line 87)
\*   "error"    { err, response, isDisposed: true }          (handleResponse, line 81)
\*   "disposed" { response, isDisposed: true }               (handleResponse, line 81)
\*   "closed"   { err: Error('Connection closed') }          (handleClose, line 136)
\*   "failed"   { err } from the catch branch                (publish, line 155)

VARIABLES
    tlsOptions,    \* this.tlsOptions was supplied in the options
    isConnected,   \* this.isConnected
    socket,        \* this.socket: Null or the id of the socket held
    connection,    \* this.connection: Null or the id of the promise held
    routingMap,    \* this.routingMap: the packet ids that have a callback registered
    nSockets,      \* sockets created so far; socket n and promise n belong to cycle n
    secure,        \* the sockets created by tlsConnect
    dialed,        \* per socket: the socket.connect(port, host) calls made on it
    net,           \* per socket: "none", "created", "connecting", "open", "errored", "closed"
    ended,         \* sockets on which end() was called and that have not closed yet
    listeners,     \* per socket: number of MESSAGE_EVENT listeners attached
    fut,           \* per promise: "none", "pending", "resolved", "rejected"
    nextId,        \* requests issued so far
    awaiting,      \* per request: the promise its send() call awaits, or Null
    unserializable,\* waiting requests whose packet the serializer will throw on
    calls,         \* per request: the outcomes its callback was invoked with, in order
    written,       \* per request: "no", or how the client was marked when sendMessage wrote it
    nMsgs,         \* message events emitted so far
    inflight,      \* the handleResponse calls suspended at the await of line 75,
                   \* in call order: message, its number, whether the callback cancels
    handled,       \* the numbers of the messages whose handleResponse call has
                   \* run on, in the order it did
    steps,         \* method calls and socket events so far
    last           \* the call or event that ran last: op, the id it concerns (request,
                   \* socket or returned promise), arg (message kind, error code), flag
                   \* (publish/send: the packet serializes; message: the callback
                   \* cancels; error: handleError was called), again (a close() right after a close())

vars == <<tlsOptions, isConnected, socket, connection, routingMap, nSockets,
          secure, dialed, net, ended,
          listeners, fut, nextId, awaiting, unserializable, calls, written,
          nMsgs, inflight, handled, steps, last>>

Init ==
    /\ tlsOptions \in BOOLEAN
    /\ isConnected = FALSE
    /\ socket = Null
    /\ connection = Null
    /\ routingMap = {}
    /\ nSockets = 0
    /\ secure = {}
    /\ dialed = [s \in SocketIds |-> 0]
    /\ net = [s \in SocketIds |-> "none"]
    /\ ended = {}
    /\ listeners = [s \in SocketIds |-> 0]
    /\ fut = [s \in SocketIds |-> "none"]
    /\ nextId = 0
    /\ awaiting = [r \in PacketIds |-> Null]
    /\ unserializable = {}
    /\ calls = [r \in PacketIds |-> << >>]
    /\ written = [r \in PacketIds |-> "no"]
    /\ nMsgs = 0
    /\ inflight = << >>
    /\ handled = << >>
    /\ steps = 0
    /\ last = [op |-> "init", id |-> 0, arg |-> "", flag |-> FALSE, again |-> FALSE]

\* ---- the program state as one value, so that a method is a function on it --
Now == [tlsOptions |-> tlsOptions,
        isConnected |-> isConnected, socket |-> socket, connection |-> connection,
        routingMap |-> routingMap, nSockets |-> nSockets,
        secure |-> secure, dialed |-> dialed, net |-> net,
        ended |-> ended, listeners |-> listeners, fut |-> fut,
        awaiting |-> awaiting, unserializable |-> unserializable,
        calls |-> calls, written |-> written, inflight |-> inflight,
        handled |-> handled, ret |-> Null, logged |-> FALSE]

Become(S) ==
    /\ tlsOptions' = S.tlsOptions
    /\ isConnected' = S.isConnected
    /\ socket' = S.socket
    /\ connection' = S.connection
    /\ routingMap' = S.routingMap
    /\ nSockets' = S.nSockets
    /\ secure' = S.secure
    /\ dialed' = S.dialed
    /\ net' = S.net
    /\ ended' = S.ended
    /\ listeners' = S.listeners
    /\ fut' = S.fut
    /\ awaiting' = S.awaiting
    /\ unserializable' = S.unserializable
    /\ calls' = S.calls
    /\ written' = S.written
    /\ inflight' = S.inflight
    /\ handled' = S.handled

\* callback(outcome): the callback registered for request id is invoked
callback(S, id, outcome) == [S EXCEPT !.calls[id] = Append(@, outcome)]

\* ---- createSocket() ------------------------------------------------------
\* lines 93-109: with tlsOptions the socket comes from tlsConnect, which
\* starts the connection itself; without, a new net.Socket that is not
\* connecting yet. ret is the new socket
createSocket(S) ==
    LET n == S.nSockets + 1 IN
    [S EXCEPT !.nSockets = n,
              !.secure = IF S.tlsOptions THEN @ \cup {n} ELSE @,
              !.net[n] = IF S.tlsOptions THEN "connecting" ELSE "created",
              !.ret = n]

\* line 50: this.socket.connect(this.port, this.host)
socketConnect(S, n) ==
    [S EXCEPT !.dialed[n] = @ + 1,
              !.net[n] = IF @ = "created" THEN "connecting" ELSE @]

\* connect() with socket.connect called whether or not tlsOptions is set
connectAlwaysDials(S) ==
    IF S.connection # Null
    THEN [S EXCEPT !.ret = S.connection]
    ELSE LET S1 == createSocket(S)
             n == S1.ret
             S2 == socketConnect([S1 EXCEPT !.socket = n], n)
         IN [S2 EXCEPT !.fut[n] = "pending",
                       !.connection = n,
                       !.ret = n]

\* connect() without the early return of lines 43-45
connectAgain(S) ==
    LET n == S.nSockets + 1 IN
    IF n > MaxSockets
    THEN [S EXCEPT !.ret = S.connection]
    ELSE [S EXCEPT !.nSockets = n,
                   !.socket = n,
                   !.net[n] = "connecting",
                   !.fut[n] = "pending",
                   !.connection = n,
                   !.ret = n]

\* connect() that does not store the promise in this.connection (line 63)
connectUnstored(S) ==
    IF S.connection # Null
    THEN [S EXCEPT !.ret = S.connection]
    ELSE LET n == S.nSockets + 1 IN
         IF n > MaxSockets
         THEN [S EXCEPT !.ret = S.nSockets]
         ELSE [S EXCEPT !.nSockets = n,
                        !.socket = n,
                        !.net[n] = "connecting",
                        !.fut[n] = "pending",
                        !.ret = n]

\* ---- connect() ------------------------------------------------------------
\* lines 42-71: the early return on this.connection, else createSocket,
\* bindEvents, socket.connect and a new promise stored in this.connection
connect(S) ==
    IF S.connection # Null
    THEN [S EXCEPT !.ret = S.connection]
    ELSE LET S1 == createSocket(S)
             n == S1.ret
             S2 == [S1 EXCEPT !.socket = n]
             S3 == IF ~S2.tlsOptions THEN socketConnect(S2, n) ELSE S2
         IN [S3 EXCEPT !.fut[n] = "pending",
                       !.connection = n,
                       !.ret = n]

\* the entries of calls after every callback registered in map got { err: 'Connection closed' }
Drained(c, map) ==
    [r \in PacketIds |-> IF r \in map THEN Append(c[r], "closed") ELSE c[r]]

\* handleClose without routingMap.clear() (line 138)
handleCloseKeepsEntries(S) ==
    LET S1 == [S EXCEPT !.isConnected = FALSE, !.socket = Null, !.connection = Null] IN
    IF Cardinality(S1.routingMap) > 0
    THEN [S1 EXCEPT !.calls = Drained(S1.calls, S1.routingMap)]
    ELSE S1

\* handleClose with size > 1 for size > 0 (line 133)
handleCloseSkipsOne(S) ==
    LET S1 == [S EXCEPT !.isConnected = FALSE, !.socket = Null, !.connection = Null] IN
    IF Cardinality(S1.routingMap) > 1
    THEN [S1 EXCEPT !.calls = Drained(S1.calls, S1.routingMap), !.routingMap = {}]
    ELSE S1

\* handleClose without this.connection = undefined (line 131)
handleCloseKeepsConnection(S) ==
    LET S1 == [S EXCEPT !.isConnected = FALSE, !.socket = Null] IN
    IF Cardinality(S1.routingMap) > 0
    THEN [S1 EXCEPT !.calls = Drained(S1.calls, S1.routingMap), !.routingMap = {}]
    ELSE S1

\* ---- handleClose() and close() ---------------------------------------------
\* lines 128-140
handleClose(S) ==
    LET S1 == [S EXCEPT !.isConnected = FALSE, !.socket = Null, !.connection = Null] IN
    IF Cardinality(S1.routingMap) > 0
    THEN [S1 EXCEPT !.calls = Drained(S1.calls, S1.routingMap), !.routingMap = {}]
    ELSE S1

\* close() as this.socket && (this.socket.end(), this.handleClose())
closeOnlyWithSocket(S) ==
    IF S.socket # Null THEN handleClose([S EXCEPT !.ended = @ \cup {S.socket}]) ELSE S

\* lines 111-114: this.socket && this.socket.end(); this.handleClose()
close(S) ==
    handleClose(IF S.socket # Null THEN [S EXCEPT !.ended = @ \cup {S.socket}] ELSE S)

\* publish with routingMap.set moved before serializer.serialize
publishRegistersFirst(S, id, serializes) ==
    LET S1 == [S EXCEPT !.routingMap = @ \cup {id}] IN
    IF ~serializes \/ S1.socket = Null
    THEN callback(S1, id, "failed")
    ELSE [S1 EXCEPT !.written[id] = IF S1.isConnected THEN "connected"
                                                      ELSE "unconnected"]

\* publish with this.socket && this.socket.sendMessage(...) on line 151
publishDropsWithoutSocket(S, id, serializes) ==
    IF ~serializes
    THEN callback(S, id, "failed")
    ELSE LET S1 == [S EXCEPT !.routingMap = @ \cup {id}] IN
         IF S1.socket = Null
         THEN S1
         ELSE [S1 EXCEPT !.written[id] = IF S1.isConnected THEN "connected"
                                                           ELSE "unconnected"]

\* ---- publish() --------------------------------------------------------------
\* lines 142-157: serialize, routingMap.set, socket.sendMessage, return the
\* cancellation function; anything thrown goes to callback({ err }).
\* serializes: serializer.serialize returns; sendMessage throws on a null socket
publish(S, id, serializes) ==
    IF ~serializes
    THEN callback(S, id, "failed")
    ELSE LET S1 == [S EXCEPT !.routingMap = @ \cup {id}] IN
         IF S1.socket = Null
         THEN callback(S1, id, "failed")
         ELSE [S1 EXCEPT !.written[id] = IF S1.isConnected THEN "connected"
                                                           ELSE "unconnected"]

\* the requests whose publish call returned the cancellation function (line
\* 153): those whose sendMessage returned
handle(S) == {r \in PacketIds : S.written[r] # "no"}

\* the returned function as () => this.routingMap.clear()
unsubscribeAll(S, id) == [S EXCEPT !.routingMap = {}]

\* line 153: the returned function, () => this.routingMap.delete(packet.id)
unsubscribe(S, id) == [S EXCEPT !.routingMap = @ \ {id}]

\* handleResponse deleting the entry after a terminal outcome
handleResponseDeleting(S, m, cancels) ==
    IF m.id \notin S.routingMap
    THEN S
    ELSE LET S1 == callback(S, m.id, m.kind) IN
         IF m.kind # "data" \/ (cancels /\ m.id \in handle(S))
         THEN unsubscribe(S1, m.id) ELSE S1

\* handleResponse without the !callback return of lines 77-79
handleResponseNoGuard(S, m, cancels) ==
    LET S1 == callback(S, m.id, m.kind) IN
    IF cancels /\ m.id \in handle(S) THEN unsubscribe(S1, m.id) ELSE S1

\* handleResponse with if (err) for if (isDisposed || err) on line 80
handleResponseErrOnly(S, m, cancels) ==
    IF m.id \notin S.routingMap
    THEN S
    ELSE LET S1 == IF m.kind = "error"
                   THEN callback(S, m.id, "error")
                   ELSE callback(S, m.id, "data")
         IN IF cancels /\ m.id \in handle(S) THEN unsubscribe(S1, m.id) ELSE S1

\* ---- handleResponse() ---------------------------------------------------------
\* lines 73-91; cancels: the callback, while it runs, invokes the cancellation
\* function of its own request (when publish returned one)
handleResponse(S, m, cancels) ==
    IF m.id \notin S.routingMap
    THEN S
    ELSE LET S1 == IF m.kind = "disposed" \/ m.kind = "error"
                   THEN callback(S, m.id, m.kind)
                   ELSE callback(S, m.id, "data")
         IN IF cancels /\ m.id \in handle(S) THEN unsubscribe(S1, m.id) ELSE S1

\* lines 56-58: each message listener attached to the emitting socket calls
\* handleResponse(buffer); with the synchronous deserializer each call
\* completes before the next event is taken
RECURSIVE onMessage(_, _, _, _)
onMessage(S, n, m, cancels) ==
    IF n = 0 THEN S ELSE onMessage(handleResponse(S, m, cancels), n - 1, m, cancels)

\* lines 56-58 and 73-75: each of the n message listeners of the emitting
\* socket calls handleResponse(buffer) for message number k, and each call
\* suspends at await this.deserializer.deserialize(buffer)
RECURSIVE arrive(_, _, _, _, _)
arrive(S, n, m, k, cancels) ==
    IF n = 0 THEN S
    ELSE arrive([S EXCEPT !.inflight = Append(@, [m |-> m, k |-> k, cancels |-> cancels])],
                n - 1, m, k, cancels)

\* the suspended calls running on newest first
resumeNewest(S) ==
    LET e == S.inflight[Len(S.inflight)] IN
    handleResponse([S EXCEPT !.inflight = SubSeq(@, 1, Len(@) - 1),
                             !.handled = Append(@, e.k)],
                   e.m, e.cancels)

\* lines 75-90: the deserializer returns the decoded packet, so the
\* suspended calls run on in the order they were made; the oldest does
resume(S) ==
    LET e == Head(S.inflight) IN
    handleResponse([S EXCEPT !.inflight = Tail(@),
                             !.handled = Append(@, e.k)],
                   e.m, e.cancels)

\* ---- the send() of the request-dispatch base, which calls publish -------------
\* the waiters of promise f, released in the order they called: each runs publish
RECURSIVE release(_, _, _)
release(S, f, r) ==
    IF r > MaxRequests THEN S
    ELSE IF S.awaiting[r] = f
         THEN release(publish([S EXCEPT !.awaiting[r] = Null,
                                        !.unserializable = @ \ {r}],
                              r, r \notin S.unserializable), f, r + 1)
         ELSE release(S, f, r + 1)

\* the waiters of promise f see it reject: their publish never runs
abandon(S, f) ==
    [S EXCEPT !.awaiting = [r \in PacketIds |-> IF S.awaiting[r] = f THEN Null
                                                 ELSE S.awaiting[r]],
              !.unserializable = {r \in @ : S.awaiting[r] # f}]

\* send: await this.connect(), then publish(packet, callback)
send(S, id, serializes) ==
    LET S1 == connect(S)
        f == S1.ret
    IN CASE S1.fut[f] = "resolved" -> publish(S1, id, serializes)
         [] S1.fut[f] = "rejected" -> S1
         [] OTHER -> [S1 EXCEPT !.awaiting[id] = f,
                                !.unserializable = IF serializes THEN @ ELSE @ \cup {id}]

\* ---- the socket's events ----------------------------------------------------------
\* connect$(socket.netSocket): the first of the socket's connect and error
\* events settles the promise of that connect() call
settle(S, s, how) == IF S.fut[s] = "pending" THEN [S EXCEPT !.fut[s] = how] ELSE S

\* the tap without this.isConnected = true (line 55)
onConnectUnmarked(S, s) ==
    LET S1 == [S EXCEPT !.net[s] = "open"] IN
    IF S1.socket = Null
    THEN abandon(settle(S1, s, "rejected"), s)
    ELSE release(settle([S1 EXCEPT !.listeners[S1.socket] = @ + 1], s, "resolved"), s, 1)

\* lines 53-61: the tap of the connect event of socket s. It marks the client
\* connected and attaches the message listener to this.socket, whichever
\* socket that now is; with this.socket null the tap throws and the promise
\* rejects
onConnect(S, s) ==
    LET S1 == [S EXCEPT !.net[s] = "open", !.isConnected = TRUE] IN
    IF S1.socket = Null
    THEN abandon(settle(S1, s, "rejected"), s)
    ELSE release(settle([S1 EXCEPT !.listeners[S1.socket] = @ + 1], s, "resolved"), s, 1)

\* lines 124-126: handleError passes the error to the logger
handleError(S) == [S EXCEPT !.logged = TRUE]

\* the error listener calling handleClose as well
onErrorTearsDown(S, s, code) ==
    LET S1 == IF code # "ECONNREFUSED" THEN handleError(S) ELSE S IN
    handleClose(abandon(settle([S1 EXCEPT !.net[s] = "errored"], s, "rejected"), s))

\* lines 117-120 and connect$: the error event of socket s. The listener of
\* bindEvents calls handleError unless the code is ECONNREFUSED; the promise
\* of a connect still outstanding rejects
onError(S, s, code) ==
    LET S1 == IF code # "ECONNREFUSED" THEN handleError(S) ELSE S IN
    abandon(settle([S1 EXCEPT !.net[s] = "errored"], s, "rejected"), s)

\* connect$ with a stream that stays open when the socket closes
streamStaysOpen(S, s) == S

\* connect$ and lines 63-67: a socket that closes before it emitted connect
\* or error ends the event stream without a value; the promise of that
\* connect() resolves silently and its waiters run on
streamEnds(S, s) ==
    IF S.fut[s] = "pending" THEN release(settle(S, s, "resolved"), s, 1) ELSE S

\* line 121: the close event of socket s runs handleClose; a closed socket
\* emits nothing more, and the event stream of its connect() ends
onClose(S, s) ==
    streamEnds(handleClose([S EXCEPT !.net[s] = "closed", !.ended = @ \ {s},
                                     !.listeners[s] = 0]), s)

\* ---- actions ----------------------------------------------------------------------
\* one more call or event, while the run has room for it
Step(op, id, arg, flag) ==
    /\ steps < MaxSteps
    /\ steps' = steps + 1
    /\ last' = [op |-> op, id |-> id, arg |-> arg, flag |-> flag,
                again |-> op = "close" /\ last.op = "close"]

CanConnect == connection # Null \/ nSockets < MaxSockets

\* a caller calls connect()
Connect ==
    /\ CanConnect
    /\ Become(connect(Now))
    /\ Step("connect", connect(Now).ret, "", FALSE)
    /\ UNCHANGED <<nextId, nMsgs>>

\* a caller calls close()
Close ==
    /\ Become(close(Now))
    /\ Step("close", 0, "", FALSE)
    /\ UNCHANGED <<nextId, nMsgs>>

\* a caller calls publish(packet, callback) directly
Publish(serializes) ==
    /\ nextId < MaxRequests
    /\ Become(publish(Now, nextId + 1, serializes))
    /\ nextId' = nextId + 1
    /\ Step("publish", nextId + 1, "", serializes)
    /\ UNCHANGED nMsgs

\* a caller calls send(pattern, data) and subscribes
SendRequest(serializes) ==
    /\ nextId < MaxRequests
    /\ CanConnect
    /\ Become(send(Now, nextId + 1, serializes))
    /\ nextId' = nextId + 1
    /\ Step("send", nextId + 1, "", serializes)
    /\ UNCHANGED nMsgs

\* a caller invokes the cancellation function publish returned for id
Cancel(id) ==
    /\ id \in handle(Now)
    /\ Become(unsubscribe(Now, id))
    /\ Step("cancel", id, "", FALSE)
    /\ UNCHANGED <<nextId, nMsgs>>

\* socket s emits connect
ConnectEvent(s) ==
    /\ net[s] = "connecting"
    /\ Become(onConnect(Now, s))
    /\ Step("connectEvent", s, "", FALSE)
    /\ UNCHANGED <<nextId, nMsgs>>

\* socket s emits error with the given code
ErrorEvent(s, code) ==
    /\ net[s] \in {"connecting", "open"}
    /\ Become(onError(Now, s, code))
    /\ Step("errorEvent", s, code, onError(Now, s, code).logged)
    /\ UNCHANGED <<nextId, nMsgs>>

\* socket s emits close
CloseEvent(s) ==
    /\ net[s] \in {"connecting", "open", "errored"}
    /\ Become(onClose(Now, s))
    /\ Step("closeEvent", s, "", FALSE)
    /\ UNCHANGED <<nextId, nMsgs>>

\* socket s emits message m
MessageEvent(s, m, cancels) ==
    /\ net[s] = "open"
    /\ listeners[s] > 0
    /\ nMsgs < MaxMessages
    /\ Become(onMessage(Now, listeners[s], m, cancels))
    /\ nMsgs' = nMsgs + 1
    /\ Step("messageEvent", m.id, m.kind, cancels)
    /\ UNCHANGED nextId

Events ==
    \/ \E s \in SocketIds : ConnectEvent(s)
    \/ \E s \in SocketIds, code \in {"ECONNREFUSED", "EOTHER"} : ErrorEvent(s, code)
    \/ \E s \in SocketIds : CloseEvent(s)
    \/ \E s \in SocketIds, m \in Messages, cancels \in BOOLEAN : MessageEvent(s, m, cancels)

\* the client under callers of its own methods
Next ==
    \/ Connect
    \/ Close
    \/ \E serializes \in BOOLEAN : Publish(serializes)
    \/ \E id \in PacketIds : Cancel(id)
    \/ Events

Spec == Init /\ [][Next]_vars

\* the client under the request-dispatch base, whose send() awaits connect()
\* before it calls publish
NextSend ==
    \/ Connect
    \/ Close
    \/ \E serializes \in BOOLEAN : SendRequest(serializes)
    \/ \E id \in PacketIds : Cancel(id)
    \/ Events

\* a client constructed without tlsOptions
InitPlain == Init /\ ~tlsOptions

SpecSend == InitPlain /\ [][NextSend]_vars

\* socket s emits message m; the handleResponse calls of its listeners
\* suspend at the await
MessageArrives(s, m, cancels) ==
    /\ net[s] = "open"
    /\ listeners[s] > 0
    /\ nMsgs < MaxMessages
    /\ Become(arrive(Now, listeners[s], m, nMsgs + 1, cancels))
    /\ nMsgs' = nMsgs + 1
    /\ Step("arrive", m.id, m.kind, cancels)
    /\ UNCHANGED nextId

\* the oldest suspended handleResponse call runs on
Resume ==
    /\ inflight # << >>
    /\ Become(resume(Now))
    /\ Step("resume", Head(inflight).m.id, Head(inflight).m.kind, Head(inflight).cancels)
    /\ UNCHANGED <<nextId, nMsgs>>

\* the client with the await of handleResponse as a step of its own: the
\* suspended calls run on before the next call or socket event is taken;
\* only further messages, decoded from the same chunk, arrive in between
NextAsync ==
    \/ /\ inflight = << >>
       /\ \/ Connect
          \/ Close
          \/ \E serializes \in BOOLEAN : Publish(serializes)
          \/ \E id \in PacketIds : Cancel(id)
          \/ \E s \in SocketIds : ConnectEvent(s)
          \/ \E s \in SocketIds, code \in {"ECONNREFUSED", "EOTHER"} : ErrorEvent(s, code)
          \/ \E s \in SocketIds : CloseEvent(s)
    \/ \E s \in SocketIds, m \in Messages, cancels \in BOOLEAN : MessageArrives(s, m, cancels)
    \/ Resume

SpecAsync == InitPlain /\ [][NextAsync]_vars

\* ---- properties ---------------------------------------------------------------------
\* the step is a run of the call or event op
Ran(op) == steps' = steps + 1 /\ last'.op = op

Closes == {"close", "closeEvent"}

LastOf(seq) == seq[Len(seq)]

\* how often the callback of r received an outcome of the given kinds
Count(r, kinds) == Cardinality({i \in 1..Len(calls[r]) : calls[r][i] \in kinds})

\* C1, as claimed: the callback of every registered request receives at most
\* one terminal outcome (an application error, a disposal marker or the
\* 'Connection closed' failure).
C1_AtMostOneTerminal ==
    \A r \in PacketIds : Count(r, {"error", "disposed", "closed"}) <= 1

\* C1, amended: the callback of every request receives the 'Connection closed'
\* failure at most once and no outcome of any kind after it, and it is invoked
\* only while its id is registered (or by the publish call that issues the
\* id); terminal outcomes of responses may come more than once while the id
\* stays registered.
C1_ClosedOnceAndLast ==
    /\ [](\A r \in PacketIds : \A i \in 1..Len(calls[r]) :
            calls[r][i] = "closed" => i = Len(calls[r]))
    /\ [][\A r \in PacketIds : calls'[r] # calls[r] =>
            \/ r \in routingMap
            \/ (Ran("publish") /\ last'.id = r /\ calls'[r] = <<"failed">>)]_vars

\* a callback that received a terminal response and then 'Connection closed'
C1_Witness ==
    \E r \in PacketIds :
        /\ Len(calls[r]) >= 2
        /\ calls[r][1] \in {"error", "disposed"}
        /\ LastOf(calls[r]) = "closed"

\* C2: a close event invokes every callback registered at that instant with
\* 'Connection closed' (and no other callback), and leaves the registry
\* empty, the client disconnected, the socket and the connection discarded.
C2_CloseEventDrains ==
    [][Ran("closeEvent") =>
         /\ calls' = Drained(calls, routingMap)
         /\ routingMap' = {}
         /\ isConnected' = FALSE
         /\ socket' = Null
         /\ connection' = Null]_vars

\* a close event that has just failed two pending requests of a connected client
C2_Witness ==
    /\ last.op = "closeEvent"
    /\ \A r \in 1..2 : calls[r] = <<"closed">> /\ written[r] = "connected"
    /\ routingMap = {}

\* C3: connect() called while this.connection is set returns that same promise
\* and creates no socket, and this.connection stays set until a close.
C3_ConnectIdempotent ==
    /\ [][(Ran("connect") /\ connection # Null) =>
            /\ last'.id = connection
            /\ connection' = connection
            /\ socket' = socket
            /\ nSockets' = nSockets
            /\ net' = net
            /\ fut' = fut]_vars
    /\ [][(connection # Null /\ connection' # connection) =>
            (Ran("close") \/ Ran("closeEvent"))]_vars

\* connect() called again on the established connection of the only socket
C3_Witness ==
    /\ last.op = "connect"
    /\ last.id = 1
    /\ nSockets = 1
    /\ connection = 1
    /\ net[1] = "open"
    /\ fut[1] = "resolved"

\* C4: a close leaves no connection and no socket behind, only connect() sets
\* this.connection, and a connect() that finds none creates a new socket and
\* a new pending promise and returns it, never one of an earlier cycle.
C4_FreshCycleAfterClose ==
    /\ [](last.op \in Closes => connection = Null /\ socket = Null)
    /\ [][(connection = Null /\ connection' # Null) => Ran("connect")]_vars
    /\ [][(Ran("connect") /\ connection = Null) =>
            /\ nSockets' = nSockets + 1
            /\ socket' = nSockets'
            /\ connection' = nSockets'
            /\ last'.id = nSockets'
            /\ net[nSockets'] = "none" /\ net'[nSockets'] = "connecting"
            /\ fut[nSockets'] = "none" /\ fut'[nSockets'] = "pending"]_vars

\* the connect() after the close of a resolved connection: a second cycle
C4_Witness ==
    /\ last.op = "connect"
    /\ last.id = 2
    /\ connection = 2
    /\ socket = 2
    /\ fut[1] = "resolved"
    /\ fut[2] = "pending"

\* C5, as claimed: after handleResponse has delivered a terminal outcome for
\* an id, the registry no longer contains that id.
C5_RemovedOnDelivery ==
    (last.op = "messageEvent" /\ last.arg \in {"error", "disposed"})
        => last.id \notin routingMap

\* C5, amended: an id leaves the registry only by its cancellation function or
\* by handleClose, and is never registered again; handleResponse removes
\* nothing itself: unless the callback cancels, the registry is as before,
\* also after a terminal outcome.
C5_RemovedOnlyByCancelOrClose ==
    /\ [][\A r \in PacketIds : (r \in routingMap /\ r \notin routingMap') =>
            \/ Ran("close")
            \/ Ran("closeEvent")
            \/ (Ran("cancel") /\ last'.id = r)
            \/ (Ran("messageEvent") /\ last'.id = r /\ last'.flag)]_vars
    /\ [][(Ran("messageEvent") /\ ~last'.flag) => routingMap' = routingMap]_vars
    /\ [][\A r \in PacketIds : (r \notin routingMap /\ r \in routingMap') =>
            (r = nextId' /\ nextId' = nextId + 1)]_vars

\* a terminal outcome was just delivered and the id is still registered
C5_Witness ==
    /\ last.op = "messageEvent"
    /\ last.arg \in {"error", "disposed"}
    /\ last.id \in routingMap
    /\ calls[last.id] # << >>
    /\ LastOf(calls[last.id]) = last.arg

\* C6: a message whose id has no registered callback invokes no callback and
\* leaves registry, socket, connected flag and connection as they were.
C6_UnknownIdIgnored ==
    [][(Ran("messageEvent") /\ last'.id \notin routingMap) =>
         /\ calls' = calls
         /\ UNCHANGED <<isConnected, socket, connection, routingMap>>]_vars

\* a message for an id drained by a close arrives on the socket still open
C6_Witness ==
    /\ last.op = "messageEvent"
    /\ last.id \notin routingMap
    /\ calls[last.id] = <<"closed">>

C8_SerializationFailure ==
    [][(Ran("publish") /\ ~last'.flag) =>
         /\ calls' = [calls EXCEPT ![last'.id] = Append(@, "failed")]
         /\ UNCHANGED <<isConnected, socket, connection, routingMap>>]_vars

\* a failed serialization while another request is pending
C8_Witness ==
    /\ last.op = "publish"
    /\ ~last.flag
    /\ calls[last.id] = <<"failed">>
    /\ \E r \in routingMap : r # last.id /\ calls[r] = << >>

\* C9: no publish call is dropped silently: its message was written to the
\* socket or its callback was invoked with a failure at once.
C9_NeverDropped ==
    \A r \in 1..nextId :
        \/ written[r] # "no"
        \/ (awaiting[r] = Null /\ calls[r] # << >> /\ calls[r][1] = "failed")

\* after a close failed a pending request, a publish without connect() failed fast
C9_Witness ==
    /\ last.op = "publish"
    /\ last.flag
    /\ socket = Null
    /\ connection = Null
    /\ calls[last.id] = <<"failed">>
    /\ \E r \in PacketIds : r < last.id /\ calls[r] = <<"closed">>

\* C10: close() in any state has the effects of a close event (all pending
\* callbacks failed, registry empty, disconnected, no socket, no connection),
\* ends the socket it held, and a close() right after a close() invokes no
\* callback and changes nothing.
C10_CloseTearsDownOnce ==
    /\ [][Ran("close") =>
            /\ calls' = Drained(calls, routingMap)
            /\ routingMap' = {}
            /\ isConnected' = FALSE
            /\ socket' = Null
            /\ connection' = Null
            /\ (socket # Null => socket \in ended')
            /\ (last'.again =>
                  /\ calls' = calls
                  /\ UNCHANGED <<isConnected, socket, connection, routingMap,
                                 net, ended, listeners, fut>>)]_vars
    /\ [](\A s \in SocketIds :
            LET A == close(Now)
                B == onClose(Now, s)
            IN /\ A.isConnected = B.isConnected
               /\ A.socket = B.socket
               /\ A.connection = B.connection
               /\ A.routingMap = B.routingMap
               /\ A.calls = B.calls)

\* the second of two close() calls, the first of which failed a pending request
C10_Witness ==
    /\ last.op = "close"
    /\ last.again
    /\ \E r \in PacketIds : calls[r] = <<"closed">> /\ written[r] # "no"
    /\ \E s \in SocketIds : s \in ended

\* the sockets that were created and have not closed
Live == {s \in SocketIds : net[s] \in {"created", "connecting", "open", "errored"}}

\* the promises of connect() that have not settled
Pending == {s \in SocketIds : fut[s] = "pending"}

\* C11, as claimed: in every reachable state at most one socket is live
\* (created and not yet closed) and at most one connect is in progress.
C11_AtMostOneLive ==
    /\ Cardinality(Live) <= 1
    /\ Cardinality(Pending) <= 1

\* C11, amended: the client holds at most one socket and one connection
\* promise, those of the newest cycle, and connect() creates a socket and a
\* promise only when it holds neither; sockets it let go of stay live until
\* their own close event.
C11_OneHeld ==
    /\ [](/\ socket \in {Null, nSockets}
          /\ connection \in {Null, nSockets}
          /\ Live \subseteq 1..nSockets)
    /\ [][nSockets' # nSockets =>
            /\ socket = Null
            /\ connection = Null
            /\ nSockets' = nSockets + 1
            /\ socket' = nSockets'
            /\ connection' = nSockets']_vars

\* close() and a second connect(): the first socket still live and its
\* promise pending beside the new ones
C11_Witness ==
    /\ last.op = "connect"
    /\ socket = 2
    /\ connection = 2
    /\ Live = {1, 2}
    /\ Pending = {1, 2}
    /\ 1 \in ended

\* C12: the cancellation function removes the identifier of its request from
\* the registry, invokes no callback and leaves every other entry alone; a
\* request that is no longer registered is never registered again and its
\* callback is never invoked again, by no message and by no close.
C12_CancelRemovesOne ==
    /\ [][Ran("cancel") =>
            /\ routingMap' = routingMap \ {last'.id}
            /\ calls' = calls]_vars
    /\ [][\A r \in 1..nextId :
            r \notin routingMap => (r \notin routingMap' /\ calls'[r] = calls[r])]_vars

\* a cancelled request whose callback was never invoked, after a message for
\* it arrived while another request is still registered
C12_Witness ==
    /\ last.op = "messageEvent"
    /\ last.id \notin routingMap
    /\ written[last.id] # "no"
    /\ calls[last.id] = << >>
    /\ \E r \in routingMap : r # last.id

\* C13: with tlsOptions every socket connect() creates comes from tlsConnect
\* and socket.connect is never called on it; without tlsOptions every
\* socket is a plain one on which socket.connect was called exactly once;
\* and the client is marked connected by nothing but a socket's connect
\* (handshake completed) event.
C13_SecureOrDialedOnce ==
    /\ [](\A s \in 1..nSockets :
            /\ tlsOptions => (s \in secure /\ dialed[s] = 0)
            /\ ~tlsOptions => (s \notin secure /\ dialed[s] = 1))
    /\ [][(~isConnected /\ isConnected') => Ran("connectEvent")]_vars

\* a client with tlsOptions, connected over a socket of tlsConnect that was
\* never dialed
C13_Witness ==
    /\ tlsOptions
    /\ last.op = "connectEvent"
    /\ isConnected
    /\ socket # Null
    /\ socket \in secure
    /\ dialed[socket] = 0

\* the outcomes that carry isDisposed: true
Flagged == {"error", "disposed"}

\* C14: in every reachable state, one handleResponse call for a message
\* whose identifier is registered invokes that callback exactly once and no
\* other, with an outcome flagged isDisposed exactly when the message
\* carries err or isDisposed, and removes nothing from the registry itself,
\* so that the next message under the identifier is delivered as well.
C14_OnceAndFlagged ==
    \A m \in Messages, cancels \in BOOLEAN :
        m.id \in routingMap =>
            LET T == handleResponse(Now, m, cancels) IN
            /\ \A r \in PacketIds \ {m.id} : T.calls[r] = calls[r]
            /\ Len(T.calls[m.id]) = Len(calls[m.id]) + 1
            /\ SubSeq(T.calls[m.id], 1, Len(calls[m.id])) = calls[m.id]
            /\ LastOf(T.calls[m.id]) \in Flagged <=> m.kind \in {"error", "disposed"}
            /\ ~cancels => T.routingMap = routingMap
            /\ (~cancels /\ m.kind = "data") =>
                   \A m2 \in Messages :
                       m2.id = m.id =>
                           Len(handleResponse(T, m2, FALSE).calls[m.id])
                               = Len(calls[m.id]) + 2

\* a streamed part and then the disposal marker delivered to the same
\* callback, which is still registered
C14_Witness ==
    /\ last.op = "messageEvent"
    /\ last.arg = "disposed"
    /\ last.id \in routingMap
    /\ calls[last.id] = <<"data", "disposed">>

\* C15: an error event of a socket, whatever its code, leaves the connected
\* flag, the socket, the connection promise slot and the registry as they
\* were and invokes no callback; handleError is called for it exactly when
\* the code is not ECONNREFUSED.
C15_ErrorOnlyLogged ==
    [][Ran("errorEvent") =>
         /\ UNCHANGED <<isConnected, socket, connection, routingMap>>
         /\ calls' = calls
         /\ last'.flag <=> last'.arg # "ECONNREFUSED"]_vars

\* an error other than ECONNREFUSED on the socket of a connected client
\* with a pending request
C15_Witness ==
    /\ last.op = "errorEvent"
    /\ last.arg = "EOTHER"
    /\ last.flag
    /\ socket = last.id
    /\ isConnected
    /\ \E r \in routingMap : calls[r] = << >>

\* C16: the close event of a socket the client no longer holds, while it
\* holds a newer one, leaves the socket and connection fields as they are
\* and invokes no callback.
C16_StaleCloseIgnored ==
    [][(Ran("closeEvent") /\ socket # Null /\ socket # last'.id) =>
         /\ socket' = socket
         /\ connection' = connection
         /\ isConnected' = isConnected
         /\ routingMap' = routingMap
         /\ calls' = calls]_vars

\* C17: once publish has reported a failure through the callback from its
\* catch branch, the registry holds no entry for that request and the
\* callback is not invoked again.
C17_FailureLeavesNoEntry ==
    \A r \in PacketIds :
        (calls[r] # << >> /\ calls[r][1] = "failed") =>
            (r \notin routingMap /\ Len(calls[r]) = 1)

\* C18: in every reachable state a client marked connected holds a socket
\* and a connection promise, and it holds a socket exactly when it holds a
\* connection promise.
C18_FieldsConsistent ==
    /\ isConnected => (socket # Null /\ connection # Null)
    /\ socket = Null <=> connection = Null

C20_WaitersReleased ==
    /\ \A s \in SocketIds : fut[s] = "pending" => net[s] = "connecting"
    /\ \A r \in PacketIds : awaiting[r] # Null => fut[awaiting[r]] = "pending"

\* a caller of send() released by the close event of a socket that never
\* connected: the promise resolved and its publish ran, on no socket
C20_Witness ==
    /\ last.op = "closeEvent"
    /\ nSockets = 1
    /\ fut[1] = "resolved"
    /\ \E r \in routingMap :
          /\ awaiting[r] = Null
          /\ written[r] = "no"
          /\ calls[r] = <<"failed">>

====
